---------------------------- MODULE Spec2Model ----------------------------
(***************************************************************************)
(* CryptoTrack (crypto_tracker.py): CryptocurrencyDataFetcher and main.    *)
(*                                                                         *)
(* The fetcher polls a market-data endpoint, turns the response into a     *)
(* DataFrame, and writes it to an Excel sheet (through COM) and to a CSV   *)
(* file.  main() connects to Excel once, then loops fetch -> update ->     *)
(* sleep, and closes the connection in a finally block.                    *)
(*                                                                         *)
(* Four specifications are given:                                          *)
(*   Spec       the control flow of main() (lines 185-217);                *)
(*   SpecApi    a client that calls the public methods of one              *)
(*              CryptocurrencyDataFetcher object in any order;             *)
(*   SpecFetch  fetch_top_50_cryptocurrencies alone, with the HTTP         *)
(*              exchange it worked on kept in the state;                   *)
(*   SpecRepeat the client of SpecApi, which then repeats a call.          *)
(*                                                                         *)
(* A method is a function from the state of the object, its argument and   *)
(* the fault that happens in it to the state it leaves and the exception   *)
(* it raises; an action applies it for every fault.                        *)
(***************************************************************************)
EXTENDS Integers, Sequences, FiniteSets, TLC

VARIABLES
    pc,          \* position of main(): "init", "fetch", "update", "sleep",
                 \* "backoff", "cleanup", "done"; "client" under SpecApi,
                 \* "fetcher" under SpecFetch; how far a repeated call is
                 \* under SpecRepeat
    df,          \* the DataFrame of the last fetch / the last update argument
    app,         \* self.app   : "None" or "Excel"
    wb,          \* self.wb    : "None" or "Workbook"
    sheet,       \* self.sheet : "None" or "Sheet"
    cells,       \* cells of sheet CryptocurrencyData in the open workbook
    disk,        \* cells of that sheet in the .xlsx file as last saved
    fileExists,  \* os.path.exists(self.excel_file_path)
    csv,         \* lines of the .csv file (<<>>: no file, or an empty one)
    steps,       \* what the last method call did to Excel and the files
    leaked,      \* Excel applications started, not quit, handle dropped
    cause,       \* why main left the loop: "none", "init", "interrupt"
    cycle,       \* the number of fetches made so far
    calls,       \* the number of method calls a client made so far
    latest,      \* the last non-empty DataFrame a fetch returned (<<>>: none)
    resp,        \* the HTTP exchange of the last fetch (under SpecFetch)
    last         \* the last call: [op |-> the method or sleep, fault |-> the
                 \* fault that happened in it, exc |-> what it raised to its
                 \* caller ("none": it returned)]

vars == <<pc, df, app, wb, sheet, cells, disk, fileExists, csv, steps,
          leaked, cause, cycle, calls, latest, resp, last>>

---------------------------------------------------------------------------
(* Bounds of the model.                                                    *)

\* Largest number of coins in one modelled API response (per_page is 50).
MaxCoins == 2

\* Largest number of leaked Excel applications that is counted.
MaxLeaked == 2

\* Largest number of fetches (cycles of the loop) that is explored.
MaxCycles == 2

\* Largest number of method calls of a client that is explored.
MaxCalls == 4

---------------------------------------------------------------------------
(* JSON values of the API response and values of DataFrame cells.          *)

JStr(s)   == [t |-> "str", v |-> s]       \* a string, taken as a whole
JChars(s) == [t |-> "chars", v |-> s]     \* a string, character by character
JNum(n)   == [t |-> "num", v |-> n]
JNull     == [t |-> "null"]
NaN       == [t |-> "nan"]
Blank     == [t |-> "blank"]

\* The keys read from every coin object, in the order they are read.
Keys == <<"name", "symbol", "current_price", "market_cap", "total_volume",
          "price_change_percentage_24h">>

\* The columns of the DataFrame, in the order of the dict literal.
Columns == <<"Name", "Symbol", "Current Price (USD)", "Market Capitalization",
             "24h Trading Volume", "24h Price Change (%)">>

NumCols == 6

\* str.upper() on the characters that occur in the modelled symbols.
UpperChar(c) ==
    CASE c = "b" -> "B"
      [] c = "t" -> "T"
      [] c = "c" -> "C"
      [] c = "u" -> "U"
      [] c = "s" -> "S"
      [] c = "d" -> "D"
      [] OTHER   -> c

\* The symbol taken as it is, without upper().
UpperSkipped(s) == s

Upper(s) == [i \in DOMAIN s |-> UpperChar(s[i])]

\* Well-formed coin objects of the modelled responses.
Bitcoin ==
    [name |-> JStr("Bitcoin"), symbol |-> JChars(<<"b", "t", "c">>),
     current_price |-> JNum(50000), market_cap |-> JNum(1000),
     total_volume |-> JNum(50), price_change_percentage_24h |-> JNum(2)]

Tether ==
    [name |-> JStr("Tether"), symbol |-> JChars(<<"U", "s", "d", "T">>),
     current_price |-> JNum(1), market_cap |-> JNum(80),
     total_volume |-> JNum(60), price_change_percentage_24h |-> JNull]

GoodCoins == {Bitcoin, Tether}

\* Malformed coin objects: a missing key, a symbol that is no string.
NoVolume ==
    [name |-> JStr("Bitcoin"), symbol |-> JChars(<<"b", "t", "c">>),
     current_price |-> JNum(50000), market_cap |-> JNum(1000),
     price_change_percentage_24h |-> JNum(2)]

NullSymbol == [Bitcoin EXCEPT !.symbol = JNull]

BadCoins == {NoVolume, NullSymbol}

RECURSIVE SeqsUpTo(_, _)
SeqsUpTo(S, n) ==
    IF n = 0 THEN {<<>>}
    ELSE LET shorter == SeqsUpTo(S, n - 1)
         IN  shorter \cup {Append(s, x) : s \in {q \in shorter : Len(q) = n - 1},
                                          x \in S}

\* The HTTP exchanges of the model: what requests.get and response.json give.
Responses ==
    {[kind |-> "neterr"]}
      \cup {[kind |-> "http", status |-> s, body |-> [json |-> "scalar"]] :
              s \in {429, 500}}
      \cup {[kind |-> "http", status |-> 200, body |-> b] :
              b \in {[json |-> "invalid"], [json |-> "scalar"],
                     [json |-> "object", keys |-> <<>>],
                     [json |-> "object", keys |-> <<"error">>]}}
      \cup {[kind |-> "http", status |-> 200,
             body |-> [json |-> "list", items |-> cs]] :
              cs \in SeqsUpTo(GoodCoins \cup BadCoins, MaxCoins)}

WellFormed(coin) ==
    /\ \A i \in 1..NumCols : Keys[i] \in DOMAIN coin
    /\ coin.symbol.t \in {"str", "chars"}

WellFormedResponse(r) ==
    /\ r.kind = "http"
    /\ r.status = 200
    /\ r.body.json = "list"
    /\ \A i \in 1..Len(r.body.items) : WellFormed(r.body.items[i])


---------------------------------------------------------------------------
(* fetch_top_50_cryptocurrencies (lines 37-79).                            *)

Returned(d) == [exc |-> "none", df |-> d]
Raised(e)   == [exc |-> e, df |-> <<>>]

\* pd.DataFrame turns a missing number into NaN.
FrameValue(v) == IF v.t = "null" THEN NaN ELSE v

\* The dict built from one coin (lines 63-70), as a DataFrame row.
CoinRow(coin) ==
    <<coin.name,
      JChars(Upper(coin.symbol.v)),
      FrameValue(coin.current_price),
      FrameValue(coin.market_cap),
      FrameValue(coin.total_volume),
      FrameValue(coin.price_change_percentage_24h)>>

\* What building that dict raises: KeyError for the first key that is
\* missing, AttributeError when the symbol has no upper().
CoinError(coin) ==
    LET missing == {i \in 1..NumCols : Keys[i] \notin DOMAIN coin}
        firstMissing == CHOOSE i \in missing : \A j \in missing : i <= j
    IN  IF missing # {} /\ firstMissing <= 2 THEN "KeyError"
        ELSE IF coin.symbol.t \notin {"str", "chars"} THEN "AttributeError"
        ELSE IF missing # {} THEN "KeyError"
        ELSE "none"

\* The for loop of lines 61-71 followed by pd.DataFrame (line 73).
ExtractFields(items) ==
    LET bad == {i \in 1..Len(items) : CoinError(items[i]) # "none"}
    IN  IF bad = {}
        THEN Returned([i \in 1..Len(items) |-> CoinRow(items[i])])
        ELSE Raised(CoinError(items[CHOOSE i \in bad : \A j \in bad : i <= j]))

\* A handler that catches ConnectionError where the code catches its base
\* class RequestException.
CaughtByFetchNarrow(e) == e \in {"ConnectionError"}

\* The except clause of line 77: RequestException is caught there and
\* nothing else.
CaughtByFetch(e) == e \in {"ConnectionError", "HTTPError", "JSONDecodeError"}

FetchHandler(res) == IF CaughtByFetch(res.exc) THEN Returned(<<>>) ELSE res

\* The outcomes of the try block (lines 53-75) on one HTTP exchange. A body
\* that is no JSON raises requests' JSONDecodeError (a RequestException) or,
\* with a requests older than 2.27, a plain ValueError.
FetchTry(r) ==
    IF r.kind = "neterr" THEN {Raised("ConnectionError")}
    ELSE IF r.status >= 400 /\ r.status < 600 THEN {Raised("HTTPError")}
    ELSE CASE r.body.json = "invalid" ->
                {Raised("JSONDecodeError"), Raised("ValueError")}
           [] r.body.json = "scalar" -> {Raised("TypeError")}
           [] r.body.json = "object" ->
                IF r.body.keys = <<>> THEN {Returned(<<>>)}
                ELSE {Raised("TypeError")}
           [] r.body.json = "list" -> {ExtractFields(r.body.items)}

fetch_top_50_cryptocurrencies(r) == {FetchHandler(res) : res \in FetchTry(r)}

\* Every result of a fetch, over the HTTP exchanges of the model.
FetchResults == UNION {fetch_top_50_cryptocurrencies(r) : r \in Responses}

\* Every DataFrame a fetch can return.
DataFrames == {res.df : res \in FetchResults}


---------------------------------------------------------------------------
(* The sheet, the workbook file and the CSV file.                          *)

\* The rows of the sheet that the model keeps: a header and MaxCoins rows.
MaxRows == MaxCoins + 1

Grid == (1..MaxRows) \X (1..NumCols)

BlankSheet == [p \in Grid |-> Blank]

\* The sheet row that lines 145-147 write DataFrame row row_idx to.
SheetRow(row_idx) == row_idx + 2

\* The cell assignments of lines 141-147 in the order they are made, each
\* <<row, column, value>>: the header, then the rows of the DataFrame, whose
\* index runs from 0.
CellWrites(d) ==
    [n \in 1..(NumCols * (Len(d) + 1)) |->
        LET col == ((n - 1) % NumCols) + 1
            row_idx == ((n - 1) \div NumCols) - 1
        IN  IF n <= NumCols
            THEN <<1, col, JStr(Columns[col])>>
            ELSE <<SheetRow(row_idx), col, d[row_idx + 1][col]>>]

\* Sheet c after the first k of the assignments w.
WriteCells(c, w, k) ==
    [p \in Grid |->
        LET hits == {n \in 1..k : w[n][1] = p[1] /\ w[n][2] = p[2]}
        IN  IF hits = {} THEN c[p]
            ELSE w[CHOOSE n \in hits : \A m \in hits : m <= n][3]]

\* The sheet that holds exactly DataFrame d: header, rows, nothing else.
SheetOf(d) ==
    [p \in Grid |->
        IF p[1] = 1 THEN JStr(Columns[p[2]])
        ELSE IF p[1] - 1 <= Len(d) THEN d[p[1] - 1][p[2]]
        ELSE Blank]

\* df.to_csv(csv_path, index=False): a header line and one line per row; a
\* NaN is written as an empty field.
CsvField(v) == IF v.t = "nan" THEN JStr("") ELSE v

to_csv(d) ==
    <<[c \in 1..NumCols |-> JStr(Columns[c])]>>
      \o [i \in 1..Len(d) |-> [c \in 1..NumCols |-> CsvField(d[i][c])]]

---------------------------------------------------------------------------
(* The state of one CryptocurrencyDataFetcher and of what it writes to, as *)
(* a record, so that a method can call another (update calls initialize).  *)

Self ==
    [app |-> app, wb |-> wb, sheet |-> sheet, cells |-> cells, disk |-> disk,
     fileExists |-> fileExists, csv |-> csv, steps |-> steps,
     leaked |-> leaked]

Becomes(s) ==
    /\ app' = s.app
    /\ wb' = s.wb
    /\ sheet' = s.sheet
    /\ cells' = s.cells
    /\ disk' = s.disk
    /\ fileExists' = s.fileExists
    /\ csv' = s.csv
    /\ steps' = s.steps
    /\ leaked' = s.leaked

Did(s, step) == [s EXCEPT !.steps = Append(@, step)]

\* An application handle is dropped (overwritten or reset) without Quit.
Leak(s) == [s EXCEPT !.leaked = IF @ < MaxLeaked THEN @ + 1 ELSE @]

\* Where a call can fail, and how: with an Exception ("error") or with a
\* KeyboardInterrupt from outside ("interrupt").
NoFault == [at |-> "none", exc |-> "none"]
Fault(at, exc) == [at |-> at, exc |-> exc]
Excs == {"error", "interrupt"}

\* What `except Exception` catches: KeyboardInterrupt is no Exception.
IsException(e) == e \notin {"none", "interrupt"}

---------------------------------------------------------------------------
(* initialize_excel_connection (lines 81-113).                             *)

InitFaults ==
    {NoFault} \cup {Fault(at, e) : at \in {"dispatch", "open", "saveas", "sheet"},
                                   e \in Excs}

\* Lines 87-92: CoInitialize and Dispatch.  self.app is assigned when
\* Dispatch returns; a handle it held is dropped.
InitDispatch(s) ==
    Did([(IF s.app = "Excel" THEN Leak(s) ELSE s) EXCEPT !.app = "Excel"],
        "dispatch")

\* Lines 95-99: open the workbook, or add one and save it under the path.
InitOpen(s, f) ==
    IF s.fileExists
    THEN Did([s EXCEPT !.wb = "Workbook", !.cells = s.disk], "open")
    ELSE IF f.at = "saveas"
    THEN Did([s EXCEPT !.wb = "Workbook", !.cells = BlankSheet], "add")
    ELSE Did(Did([s EXCEPT !.wb = "Workbook", !.cells = BlankSheet,
                           !.disk = BlankSheet, !.fileExists = TRUE],
                 "add"), "saveas")

\* Lines 102-106: the sheet of the workbook, added when it is not there (an
\* added sheet is blank, as is a sheet never written).
InitSheet(s) == [s EXCEPT !.sheet = "Sheet"]

\* The try block: the state it leaves, given where it fails.
InitTry(s, f) ==
    IF f.at = "dispatch" THEN s
    ELSE IF f.at = "open" THEN InitDispatch(s)
    ELSE IF f.at = "saveas" /\ ~s.fileExists THEN InitOpen(InitDispatch(s), f)
    ELSE IF f.at = "sheet" THEN InitOpen(InitDispatch(s), NoFault)
    ELSE InitSheet(InitOpen(InitDispatch(s), NoFault))

\* Whether the try block fails under f: SaveAs runs only for a new file.
InitFails(s, f) ==
    /\ f.at # "none"
    /\ f.at = "saveas" => ~s.fileExists

\* An except clause that logs and does not re-raise.
InitHandlerSwallow(e) == IF IsException(e) THEN "none" ELSE e

\* The except clause of lines 110-113 logs and re-raises.
InitHandler(e) == e

\* The call: the state it leaves and what it raises.
initialize_excel_connection(s, f) ==
    [s |-> InitTry(s, f),
     exc |-> IF InitFails(s, f) THEN InitHandler(f.exc) ELSE "none"]


---------------------------------------------------------------------------
(* update_excel_sheet (lines 115-155).                                     *)

\* The cell assignments of a call with DataFrame d at which the model lets
\* a fault happen: the first and the last of the header, the first and the
\* last of the rows.
FaultyCells(d) == {1, NumCols, NumCols + 1, NumCols * (Len(d) + 1)}

\* Where the try block of one call with DataFrame d can fail: writing the
\* CSV (with the old file kept, or truncated), Clear, the n-th cell
\* assignment, Save.
UpdateFaults(d) ==
    {[at |-> "none", exc |-> "none", n |-> 0, trunc |-> FALSE]}
      \cup {[at |-> "csv", exc |-> e, n |-> 0, trunc |-> t] :
              e \in Excs, t \in BOOLEAN}
      \cup {[at |-> at, exc |-> e, n |-> 0, trunc |-> FALSE] :
              at \in {"clear", "save"}, e \in Excs}
      \cup {[at |-> "cell", exc |-> e, n |-> n, trunc |-> FALSE] :
              e \in Excs, n \in FaultyCells(d)}

\* A connection made in every call, without the test of line 129.
NeedsConnectionAlways(s) == TRUE

\* Line 129: a connection is made when a handle is missing.
NeedsConnection(s) == s.app = "None" \/ s.wb = "None" \/ s.sheet = "None"

\* The CSV file opened for appending (mode="a"): the old lines stay.
WriteCsvAppend(s, d) == Did([s EXCEPT !.csv = @ \o to_csv(d)], "csv")

\* Lines 133-134.
WriteCsv(s, d) == Did([s EXCEPT !.csv = to_csv(d)], "csv")

\* Line 138 left out: the old cells stay.
ClearCellsSkipped(s) == Did(s, "clear")

\* Line 138.
ClearCells(s) == Did([s EXCEPT !.cells = BlankSheet], "clear")

\* Lines 141-147, the first k assignments; the header and the rows are
\* recorded once they are complete.
AssignCells(s, d, k) ==
    LET s1 == [s EXCEPT !.cells = WriteCells(s.cells, CellWrites(d), k)]
        s2 == IF k >= NumCols THEN Did(s1, "header") ELSE s1
    IN  IF k = NumCols * (Len(d) + 1) THEN Did(s2, "rows") ELSE s2

\* wb.Save(): the workbook's file takes the cells of the open workbook. A
\* workbook added but never saved under the path is saved elsewhere.
SaveWorkbook(s) ==
    Did(IF s.fileExists THEN [s EXCEPT !.disk = s.cells] ELSE s, "save")

\* The writes with wb.Save() in a finally: the workbook is saved also when
\* Clear or a cell assignment raised.
UpdateWriteSaveAlways(s, d, f) ==
    IF f.at = "csv"
    THEN [s |-> IF f.trunc THEN [s EXCEPT !.csv = <<>>] ELSE s, exc |-> f.exc]
    ELSE IF f.at = "clear"
    THEN [s |-> SaveWorkbook(WriteCsv(s, d)), exc |-> f.exc]
    ELSE IF f.at = "cell"
    THEN [s |-> SaveWorkbook(AssignCells(ClearCells(WriteCsv(s, d)), d,
                                         f.n - 1)),
          exc |-> f.exc]
    ELSE LET written == AssignCells(ClearCells(WriteCsv(s, d)), d,
                                    NumCols * (Len(d) + 1))
         IN  IF f.at = "save" THEN [s |-> written, exc |-> f.exc]
             ELSE [s |-> SaveWorkbook(written), exc |-> "none"]

\* Lines 132-151, once the connection is there.
UpdateWrite(s, d, f) ==
    IF f.at = "csv"
    THEN [s |-> IF f.trunc THEN [s EXCEPT !.csv = <<>>] ELSE s, exc |-> f.exc]
    ELSE IF f.at = "clear" THEN [s |-> WriteCsv(s, d), exc |-> f.exc]
    ELSE IF f.at = "cell"
    THEN [s |-> AssignCells(ClearCells(WriteCsv(s, d)), d, f.n - 1),
          exc |-> f.exc]
    ELSE LET written == AssignCells(ClearCells(WriteCsv(s, d)), d,
                                    NumCols * (Len(d) + 1))
         IN  IF f.at = "save" THEN [s |-> written, exc |-> f.exc]
             ELSE [s |-> SaveWorkbook(written), exc |-> "none"]

\* The try block without the check of lines 124-126.
UpdateTryUnchecked(s, d, fi, f) ==
    IF NeedsConnection(s)
    THEN LET c == initialize_excel_connection(s, fi)
         IN  IF c.exc # "none" THEN c ELSE UpdateWrite(c.s, d, f)
    ELSE UpdateWrite(s, d, f)

\* Lines 123-151: the try block.
UpdateTry(s, d, fi, f) ==
    IF d = <<>> THEN [s |-> s, exc |-> "none"]
    ELSE IF NeedsConnection(s)
    THEN LET c == initialize_excel_connection(s, fi)
         IN  IF c.exc # "none" THEN c ELSE UpdateWrite(c.s, d, f)
    ELSE UpdateWrite(s, d, f)

\* An except clause that logs and re-raises, as that of lines 110-113 does.
UpdateHandlerReraise(e) == e

\* The except clause of lines 153-155: an Exception is logged and dropped.
UpdateHandler(e) == IF IsException(e) THEN "none" ELSE e

update_excel_sheet(s, d, fi, f) ==
    LET r == UpdateTry([s EXCEPT !.steps = <<>>], d, fi, f)
    IN  [s |-> r.s, exc |-> UpdateHandler(r.exc)]

---------------------------------------------------------------------------
(* close_excel_connection (lines 157-182).                                 *)

CloseFaults ==
    {NoFault} \cup {Fault(at, e) : at \in {"save", "close", "quit"}, e \in Excs}

\* A fault happens only in a statement that runs.
CloseFails(s, f) ==
    \/ f.at \in {"save", "close"} /\ s.wb # "None"
    \/ f.at = "quit" /\ s.app # "None"

\* Lines 162-164.
CloseWorkbook(s, f) ==
    IF s.wb = "None" THEN s
    ELSE IF f.at = "save" THEN s
    ELSE IF f.at = "close" THEN SaveWorkbook(s)
    ELSE Did(SaveWorkbook(s), "close")

\* Quit called without the test of line 166.
QuitAppUnguarded(s, f) == IF f.at = "quit" THEN s ELSE Did(s, "quit")

\* Lines 166-167.
QuitApp(s, f) ==
    IF s.app = "None" \/ f.at = "quit" THEN s ELSE Did(s, "quit")

\* Lines 162-167: the try block.
CloseTry(s, f) ==
    IF f.at \in {"save", "close"} /\ s.wb # "None" THEN CloseWorkbook(s, f)
    ELSE QuitApp(CloseWorkbook(s, f), f)

\* The reset of the handles placed at the end of the try block, not in a
\* finally: it is skipped when a statement before it raises.
CloseNoFinally(s, quit) ==
    IF s.app # "None" /\ ~quit THEN s
    ELSE [s EXCEPT !.app = "None", !.wb = "None", !.sheet = "None"]

\* Lines 172-182: the handles are reset; an application that was not quit
\* is left running with no handle to it.
CloseFinally(s, quit) ==
    [(IF s.app # "None" /\ ~quit THEN Leak(s) ELSE s)
        EXCEPT !.app = "None", !.wb = "None", !.sheet = "None"]

\* An except clause that logs and re-raises, as that of lines 110-113 does.
CloseHandlerReraise(e) == e

\* The except clause of lines 169-170.
CloseHandler(e) == IF IsException(e) THEN "none" ELSE e

close_excel_connection(s, f) ==
    LET s0 == [s EXCEPT !.steps = <<>>]
        t == CloseTry(s0, f)
        quit == Len(t.steps) > 0 /\ t.steps[Len(t.steps)] = "quit"
    IN  [s |-> CloseFinally(t, quit),
         exc |-> IF CloseFails(s0, f) THEN CloseHandler(f.exc) ELSE "none"]


---------------------------------------------------------------------------
(* The initial state: a fetcher just constructed (lines 19-35), beside the *)
(* files an earlier run left: none, or a workbook and a CSV file that hold *)
(* one earlier DataFrame.                                                  *)

Called(op, fault, exc) == [op |-> op, fault |-> fault, exc |-> exc]

\* The DataFrame an earlier run left in the files.
PriorFrame == [i \in 1..MaxCoins |-> CoinRow(Tether)]

InitObject ==
    /\ df = <<>>
    /\ app = "None"
    /\ wb = "None"
    /\ sheet = "None"
    /\ cells = BlankSheet
    /\ steps = <<>>
    /\ leaked = 0
    /\ cause = "none"
    /\ latest = <<>>
    /\ resp = [kind |-> "none"]
    /\ last = Called("none", NoFault, "none")
    /\ cycle = 0
    /\ calls = 0
    /\ \/ fileExists = FALSE /\ disk = BlankSheet /\ csv = <<>>
       \/ /\ fileExists = TRUE
          /\ disk = SheetOf(PriorFrame)
          /\ csv = to_csv(PriorFrame)

Init == pc = "init" /\ InitObject

---------------------------------------------------------------------------
(* main (lines 185-217).                                                   *)

\* A loop body with no except clause: every exception leaves the loop.
LoopHandlerAbsent(e) == "cleanup"

\* An except clause that falls through to the sleep of line 204.
LoopHandlerNominal(e) == IF IsException(e) THEN "sleep" ELSE "cleanup"

\* The except clause of line 206 and the finally of line 215: where main
\* goes when a statement of the loop body raises e.
LoopHandler(e) == IF IsException(e) THEN "backoff" ELSE "cleanup"

\* The except clause of line 211 and the finally of line 215: where main
\* goes when the first connection raises e.
StartHandler(e) == "cleanup"

\* The fault that happens in an update call, of the two it is given.
UpdateFault(s, d, fi, f) ==
    IF d = <<>> THEN NoFault
    ELSE IF NeedsConnection(s) /\ InitFails(s, fi) THEN fi
    ELSE Fault(f.at, f.exc)

\* The faults of one update call with DataFrame d, <<fault of the
\* connection, fault of the writes>>: the connection can fail only when the
\* call makes one, and the writes only when it did not.
UpdateCases(s, d) ==
    {<<NoFault, f>> : f \in UpdateFaults(d)}
      \cup IF d # <<>> /\ NeedsConnection(s)
           THEN {<<fi, CHOOSE f \in UpdateFaults(d) : f.at = "none">> :
                   fi \in {x \in InitFaults : InitFails(s, x)}}
           ELSE {}

\* Line 192.
Connect ==
    /\ pc = "init"
    /\ \E f \in InitFaults :
         LET r == initialize_excel_connection([Self EXCEPT !.steps = <<>>], f)
         IN  /\ Becomes(r.s)
             /\ last' = Called("initialize", IF InitFails(Self, f) THEN f ELSE NoFault,
                             r.exc)
             /\ pc' = IF r.exc = "none" THEN "fetch" ELSE StartHandler(r.exc)
             /\ cause' = IF r.exc = "none" THEN "none"
                         ELSE IF r.exc = "interrupt" THEN "interrupt" ELSE "init"
    /\ UNCHANGED <<df, cycle, calls, latest, resp>>

\* Line 197.
Fetch ==
    /\ pc = "fetch"
    /\ cycle < MaxCycles
    /\ cycle' = cycle + 1
    /\ \E res \in FetchResults \cup {Raised("interrupt")} :
           /\ last' = Called("fetch", NoFault, res.exc)
           /\ IF res.exc = "none"
              THEN /\ df' = res.df
                   /\ latest' = IF res.df # <<>> THEN res.df ELSE latest
                   /\ pc' = "update"
                   /\ cause' = cause
              ELSE /\ pc' = LoopHandler(res.exc)
                   /\ cause' = IF res.exc = "interrupt" THEN "interrupt" ELSE cause
                   /\ UNCHANGED <<df, latest>>
    /\ UNCHANGED <<app, wb, sheet, cells, disk, fileExists, csv, steps, leaked,
                   calls, resp>>

\* Line 200.
Update ==
    /\ pc = "update"
    /\ \E c \in UpdateCases(Self, df) :
         LET r == update_excel_sheet(Self, df, c[1], c[2])
         IN  /\ Becomes(r.s)
             /\ last' = Called("update", UpdateFault(Self, df, c[1], c[2]), r.exc)
             /\ pc' = IF r.exc = "none" THEN "sleep" ELSE LoopHandler(r.exc)
             /\ cause' = IF r.exc = "interrupt" THEN "interrupt" ELSE cause
    /\ UNCHANGED <<df, cycle, calls, latest, resp>>

\* Line 204: time.sleep(30) returns, or is interrupted from outside.
Sleep ==
    /\ pc = "sleep"
    /\ \E e \in {"none", "interrupt"} :
         /\ pc' = IF e = "none" THEN "fetch" ELSE LoopHandler(e)
         /\ cause' = IF e = "interrupt" THEN "interrupt" ELSE cause
         /\ last' = Called("sleep", NoFault, e)
    /\ UNCHANGED <<df, app, wb, sheet, cells, disk, fileExists, csv, steps,
                   leaked, cycle, calls, latest, resp>>

\* Line 209: time.sleep(60) in the except clause of the loop body; an
\* interruption there leaves through the finally of line 215.
Backoff ==
    /\ pc = "backoff"
    /\ \E e \in {"none", "interrupt"} :
         /\ pc' = IF e = "none" THEN "fetch" ELSE "cleanup"
         /\ cause' = IF e = "interrupt" THEN "interrupt" ELSE cause
         /\ last' = Called("backoff", NoFault, e)
    /\ UNCHANGED <<df, app, wb, sheet, cells, disk, fileExists, csv, steps,
                   leaked, cycle, calls, latest, resp>>

\* Line 217, in the finally block; main ends when the call returns or
\* raises.
Cleanup ==
    /\ pc = "cleanup"
    /\ \E f \in CloseFaults :
         LET r == close_excel_connection(Self, f)
         IN  /\ Becomes(r.s)
             /\ last' = Called("close", IF CloseFails(Self, f) THEN f ELSE NoFault,
                             r.exc)
    /\ pc' = "done"
    /\ UNCHANGED <<df, cause, cycle, calls, latest, resp>>

Next == Connect \/ Fetch \/ Update \/ Sleep \/ Backoff \/ Cleanup

Spec == Init /\ [][Next]_vars


---------------------------------------------------------------------------
(* A client of the class: one CryptocurrencyDataFetcher, its four methods  *)
(* called in any order, each update with the DataFrame of the last fetch.  *)

InitApi == pc = "client" /\ InitObject

\* The client is not interrupted from outside: its calls fail with
\* Exceptions only.
NoInterrupt(f) == f.exc # "interrupt"

CallFetch ==
    /\ pc = "client"
    /\ calls < MaxCalls
    /\ calls' = calls + 1
    /\ \E res \in FetchResults :
         /\ last' = Called("fetch", NoFault, res.exc)
         /\ df' = IF res.exc = "none" THEN res.df ELSE df
         /\ latest' = IF res.exc = "none" /\ res.df # <<>> THEN res.df ELSE latest
    /\ UNCHANGED <<pc, app, wb, sheet, cells, disk, fileExists, csv, steps,
                   leaked, cause, cycle, resp>>

CallInitialize ==
    /\ pc = "client"
    /\ calls < MaxCalls
    /\ calls' = calls + 1
    /\ \E f \in {x \in InitFaults : NoInterrupt(x)} :
         LET r == initialize_excel_connection([Self EXCEPT !.steps = <<>>], f)
         IN  Becomes(r.s) /\ last' = Called("initialize", IF InitFails(Self, f) THEN f ELSE NoFault,
                             r.exc)
    /\ UNCHANGED <<pc, df, cause, cycle, latest, resp>>

CallUpdate ==
    /\ pc = "client"
    /\ calls < MaxCalls
    /\ calls' = calls + 1
    /\ \E c \in {x \in UpdateCases(Self, df) :
                      NoInterrupt(x[1]) /\ NoInterrupt(x[2])} :
         LET r == update_excel_sheet(Self, df, c[1], c[2])
         IN  Becomes(r.s) /\ last' = Called("update", UpdateFault(Self, df, c[1], c[2]), r.exc)
    /\ UNCHANGED <<pc, df, cause, cycle, latest, resp>>

CallClose ==
    /\ pc = "client"
    /\ calls < MaxCalls
    /\ calls' = calls + 1
    /\ \E f \in {x \in CloseFaults : NoInterrupt(x)} :
         LET r == close_excel_connection(Self, f)
         IN  Becomes(r.s) /\ last' = Called("close", IF CloseFails(Self, f) THEN f ELSE NoFault,
                             r.exc)
    /\ UNCHANGED <<pc, df, cause, cycle, latest, resp>>

NextApi == CallFetch \/ CallInitialize \/ CallUpdate \/ CallClose

SpecApi == InitApi /\ [][NextApi]_vars


---------------------------------------------------------------------------
(* The fetch alone: fetch_top_50_cryptocurrencies called again and again,  *)
(* each time on one of the HTTP exchanges of the model, which is recorded  *)
(* beside what the call returned or raised.                                *)

InitFetch == pc = "fetcher" /\ InitObject

FetchCall ==
    /\ pc = "fetcher"
    /\ calls < MaxCalls
    /\ calls' = calls + 1
    /\ \E r \in Responses :
         \E res \in fetch_top_50_cryptocurrencies(r) :
           /\ resp' = r
           /\ last' = Called("fetch", NoFault, res.exc)
           /\ df' = res.df
           /\ latest' = IF res.exc = "none" /\ res.df # <<>> THEN res.df ELSE latest
    /\ UNCHANGED <<pc, app, wb, sheet, cells, disk, fileExists, csv, steps,
                   leaked, cause, cycle>>

NextFetch == FetchCall

SpecFetch == InitFetch /\ [][NextFetch]_vars


---------------------------------------------------------------------------
(* A client that repeats a call: after any calls of the four methods, it   *)
(* calls update_excel_sheet twice in a row with the same DataFrame and     *)
(* nothing failing, or close_excel_connection twice in a row, or           *)
(* update_excel_sheet right after close_excel_connection.  pc tells how    *)
(* far it is: "client", "updated", "updated again", "closed", "closed      *)
(* again", "reopened".                                                     *)

\* An update call with DataFrame d in which no step fails.
CleanUpdate(s, d) ==
    update_excel_sheet(s, d, NoFault, CHOOSE f \in UpdateFaults(d) : f.at = "none")

UpdateOnce ==
    /\ pc = "client"
    /\ df # <<>>
    /\ Becomes(CleanUpdate(Self, df).s)
    /\ last' = Called("update", NoFault, "none")
    /\ pc' = "updated"
    /\ UNCHANGED <<df, cause, cycle, calls, latest, resp>>

UpdateAgain ==
    /\ pc = "updated"
    /\ Becomes(CleanUpdate(Self, df).s)
    /\ last' = Called("update", NoFault, "none")
    /\ pc' = "updated again"
    /\ UNCHANGED <<df, cause, cycle, calls, latest, resp>>

CloseOnce ==
    /\ pc = "client"
    /\ \E f \in {x \in CloseFaults : NoInterrupt(x)} :
         LET r == close_excel_connection(Self, f)
         IN  /\ Becomes(r.s)
             /\ last' = Called("close",
                               IF CloseFails(Self, f) THEN f ELSE NoFault, r.exc)
    /\ pc' = "closed"
    /\ UNCHANGED <<df, cause, cycle, calls, latest, resp>>

CloseAgain ==
    /\ pc = "closed"
    /\ \E f \in {x \in CloseFaults : NoInterrupt(x)} :
         LET r == close_excel_connection(Self, f)
         IN  /\ Becomes(r.s)
             /\ last' = Called("close",
                               IF CloseFails(Self, f) THEN f ELSE NoFault, r.exc)
    /\ pc' = "closed again"
    /\ UNCHANGED <<df, cause, cycle, calls, latest, resp>>

UpdateAfterClose ==
    /\ pc = "closed"
    /\ df # <<>>
    /\ \E c \in {x \in UpdateCases(Self, df) :
                      NoInterrupt(x[1]) /\ NoInterrupt(x[2])} :
         LET r == update_excel_sheet(Self, df, c[1], c[2])
         IN  /\ Becomes(r.s)
             /\ last' = Called("update", UpdateFault(Self, df, c[1], c[2]),
                               r.exc)
    /\ pc' = "reopened"
    /\ UNCHANGED <<df, cause, cycle, calls, latest, resp>>

\* The calls made before the repeated one, one fewer than a client makes.
Arrange == calls < MaxCalls - 1 /\ NextApi

NextRepeat ==
    \/ Arrange
    \/ UpdateOnce
    \/ UpdateAgain
    \/ CloseOnce
    \/ CloseAgain
    \/ UpdateAfterClose

SpecRepeat == InitApi /\ [][NextRepeat]_vars


---------------------------------------------------------------------------
(* The claims.                                                             *)

InSteps(x) == \E i \in 1..Len(steps) : steps[i] = x

Connected == app # "None" /\ wb # "None" /\ sheet # "None"

SinkHolds(d) == cells = SheetOf(d) /\ csv = to_csv(d)

\* C1: a cycle ends with the sheet and the CSV file holding exactly the last
\* non-empty DataFrame that a fetch returned, whatever step of the
\* spreadsheet failed in it: when the cycle's fetch returned a new DataFrame
\* or the sink held the last one before, and writing the CSV file did not
\* itself fail, the sink holds the last DataFrame when update returns.
C1_SinkHoldsLatest ==
    [][(pc = "update" /\ pc' = "sleep" /\ latest # <<>>
          /\ last'.fault.at # "csv"
          /\ (df # <<>> \/ SinkHolds(latest)))
          => (cells' = SheetOf(latest) /\ csv' = to_csv(latest))]_vars

\* C2: an update call with an empty DataFrame changes neither the sheet, nor
\* the workbook file, nor the CSV file, nor a handle; it makes no
\* connection, takes no step and returns normally.
C2_EmptyUpdateWritesNothing ==
    [][(last'.op = "update" /\ calls' # calls /\ df = <<>>)
          => /\ UNCHANGED <<cells, disk, fileExists, csv, app, wb, sheet, leaked>>
             /\ steps' = <<>>
             /\ last'.exc = "none"]_vars

C2_Witness ==
    /\ last.op = "update"
    /\ df = <<>>
    /\ csv = to_csv(PriorFrame)
    /\ ~Connected

\* C3: a fetch whose HTTP call fails with a network error or comes back with
\* a non-success status returns an empty DataFrame and raises nothing.
C3_FailedCallReturnsEmpty ==
    (last.op = "fetch"
       /\ (resp.kind = "neterr" \/ (resp.kind = "http" /\ resp.status # 200)))
        => (last.exc = "none" /\ df = <<>>)

C3_Witness ==
    /\ last.op = "fetch"
    /\ resp.kind = "http"
    /\ resp.status = 500
    /\ latest # <<>>
    /\ df = <<>>

\* C4: a fetch whose HTTP call succeeds with a malformed payload returns an
\* empty DataFrame and raises nothing.
C4_MalformedPayloadRecovered ==
    (last.op = "fetch" /\ resp.kind = "http" /\ resp.status = 200
       /\ ~WellFormedResponse(resp))
        => (last.exc = "none" /\ df = <<>>)

\* C5: an error raised by Clear, by a cell assignment or by Save in an update
\* call does not leave the call: the call returns normally and the loop goes
\* to its nominal sleep, not to the backoff and not out of the loop.
C5_SinkErrorsCaught ==
    (last.op = "update" /\ last.fault.at \in {"clear", "cell", "save"}
       /\ last.fault.exc = "error")
        => (last.exc = "none" /\ pc = "sleep")

C5_Witness ==
    /\ last.op = "update"
    /\ last.fault = Fault("cell", "error")
    /\ pc = "sleep"
    /\ cycle = MaxCycles

Running == {"fetch", "update", "sleep", "backoff"}

\* C6: the loop is left only by an interruption from outside, and main ends
\* without entering the loop only when the first connection fails; after a
\* sleep that is not interrupted, nominal or backoff, the next cycle begins.
C6_OnlyInterruptTerminates ==
    [][/\ (pc \in Running /\ pc' \notin Running) => last'.exc = "interrupt"
       /\ (pc = "init" /\ pc' \notin Running /\ pc' # "init")
             => last'.fault.at # "none"
       /\ (pc \in {"sleep", "backoff"} /\ last'.exc = "none") => pc' = "fetch"
       /\ (pc \in {"fetch", "update"} /\ last'.exc # "interrupt")
             => pc' \in Running]_vars

C6_Witness ==
    /\ pc = "fetch"
    /\ last = Called("backoff", NoFault, "none")
    /\ cycle > 0
    /\ Connected

\* C7: when main has ended, close_excel_connection was the last call made
\* and no handle is held.
C7_CleanupAlwaysRuns ==
    pc = "done"
        => (last.op = "close" /\ app = "None" /\ wb = "None" /\ sheet = "None")

C7_Witness ==
    /\ pc = "done"
    /\ cause = "interrupt"
    /\ cycle > 0
    /\ last.fault.at = "quit"

\* C8: a first connection that fails raises to main, which makes no fetch
\* and no update and goes to the cleanup.
C8_FailedStartAborts ==
    /\ (last.op = "initialize" /\ last.fault.exc = "error")
          => (last.exc = "error" /\ pc = "cleanup" /\ cause = "init")
    /\ cause = "init"
          => /\ pc \in {"cleanup", "done"}
             /\ cycle = 0
             /\ last.op \in {"initialize", "close"}
             /\ df = <<>>

C8_Witness ==
    /\ pc = "done"
    /\ cause = "init"
    /\ last.op = "close"

\* C9: when an update call with a non-empty DataFrame returns, and writing
\* the CSV file did not itself fail, the CSV file holds that DataFrame,
\* also when the connection could not be made.
C9_CsvWrittenRegardless ==
    (last.op = "update" /\ df # <<>> /\ last.fault.at # "csv")
        => csv = to_csv(df)

\* C10: after an update call with a non-empty DataFrame in which nothing
\* failed, row 1 of the sheet is the header, row i+1 is row i of the
\* DataFrame, every further row is blank, and the CSV file has the header
\* line and the same rows.
C10_SheetIsHeaderPlusRows ==
    (last.op = "update" /\ df # <<>> /\ last.fault.at = "none")
        => /\ \A c \in 1..NumCols : cells[<<1, c>>] = JStr(Columns[c])
           /\ \A i \in 1..Len(df) : \A c \in 1..NumCols :
                cells[<<i + 1, c>>] = df[i][c]
           /\ \A p \in Grid : p[1] > Len(df) + 1 => cells[p] = Blank
           /\ Len(csv) = Len(df) + 1
           /\ \A c \in 1..NumCols : csv[1][c] = JStr(Columns[c])
           /\ \A i \in 1..Len(df) : \A c \in 1..NumCols :
                csv[i + 1][c] = CsvField(df[i][c])

C10_Witness ==
    /\ last.op = "update"
    /\ last.fault.at = "none"
    /\ calls = 2
    /\ Len(df) = 1
    /\ InSteps("open")
    /\ cells[<<MaxRows, 1>>] = Blank

\* What the sink holds: the sheet, the workbook file, the CSV file.
Sink == <<cells, disk, fileExists, csv>>

\* C11: a second update call with the same non-empty DataFrame, made right
\* after the first with no step failing in either, leaves the sheet, the
\* workbook file and the CSV file as the first call left them; the CSV file
\* has one line per row and the header, nothing is appended.
C11_UpdateIdempotent ==
    [][(pc = "updated" /\ pc' = "updated again")
          => /\ UNCHANGED Sink
             /\ Len(csv') = Len(df) + 1]_vars

C11_Witness ==
    /\ pc = "updated again"
    /\ Len(df) = MaxCoins
    /\ df[1] # df[2]
    /\ SinkHolds(df)
    /\ disk = cells

NoHandle == app = "None" /\ wb = "None" /\ sheet = "None"

\* A step in which close_excel_connection is called.
CloseStep == last'.op = "close" /\ (calls' # calls \/ pc' # pc)

\* C12: close_excel_connection called with no connection open (never opened,
\* or closed before) saves nothing, closes nothing, quits nothing, raises
\* nothing and leaves no handle set; the second of two calls in a row
\* changes neither the sheet, nor the files, nor the handles, nor the count
\* of applications left running.
C12_CloseIdempotent ==
    [][/\ (CloseStep /\ NoHandle)
            => /\ steps' = <<>>
               /\ last'.exc = "none"
               /\ NoHandle'
               /\ UNCHANGED <<Sink, leaked>>
       /\ (pc = "closed" /\ pc' = "closed again")
            => /\ steps' = <<>>
               /\ last'.exc = "none"
               /\ UNCHANGED <<Sink, app, wb, sheet, leaked>>]_vars

C12_Witness ==
    /\ pc = "closed again"
    /\ df # <<>>
    /\ disk = SheetOf(df)
    /\ steps = <<>>
    /\ NoHandle
    /\ leaked = 0

\* Whether step x is among the steps sq of a call.
Among(sq, x) == \E i \in 1..Len(sq) : sq[i] = x

\* C13: when main's cleanup calls close_excel_connection while an
\* application handle is held and the call returns, the application has been
\* quit and none is left running without a handle, and an open workbook has
\* been saved and closed, also when Save or Close raised in the call.
C13_HandlesReleased ==
    [][(pc = "cleanup" /\ pc' = "done" /\ app # "None"
          /\ last'.exc = "none"
          /\ last'.fault.at \in {"none", "save", "close"})
          => /\ Among(steps', "quit")
             /\ leaked' = leaked
             /\ wb # "None" => (Among(steps', "save") /\ Among(steps', "close"))]_vars

\* The letters of the modelled symbols, <<lower case, upper case>>.
Letters == {<<"b", "B">>, <<"t", "T">>, <<"c", "C">>, <<"u", "U">>,
            <<"s", "S">>, <<"d", "D">>}

\* Symbol r is symbol c in upper case.
UpperCased(c, r) ==
    /\ r.t = "chars"
    /\ Len(r.v) = Len(c.v)
    /\ \A k \in 1..Len(c.v) :
         /\ \E l \in Letters : r.v[k] = l[2]
         /\ r.v[k] = c.v[k] \/ <<c.v[k], r.v[k]>> \in Letters

\* Field r of a record is value v of the coin (NaN for a null).
TakenFrom(v, r) == IF v.t = "null" THEN r = NaN ELSE r = v

\* C14: on a well-formed response of N coins the fetch returns N records,
\* record i made from coin i: its name, its symbol in upper case, then its
\* price, market capitalization, volume and price change, in this order.
C14_WellFormedGivesRecords ==
    (last.op = "fetch" /\ WellFormedResponse(resp))
        => /\ last.exc = "none"
           /\ Len(df) = Len(resp.body.items)
           /\ \A i \in 1..Len(df) :
                LET coin == resp.body.items[i]
                IN  /\ Len(df[i]) = NumCols
                    /\ df[i][1] = coin.name
                    /\ UpperCased(coin.symbol, df[i][2])
                    /\ TakenFrom(coin.current_price, df[i][3])
                    /\ TakenFrom(coin.market_cap, df[i][4])
                    /\ TakenFrom(coin.total_volume, df[i][5])
                    /\ TakenFrom(coin.price_change_percentage_24h, df[i][6])

C14_Witness ==
    /\ last.op = "fetch"
    /\ WellFormedResponse(resp)
    /\ resp.body.items = <<Tether, Bitcoin>>
    /\ Len(df) = 2
    /\ df[2][2] = JChars(<<"B", "T", "C">>)

\* A step in which update_excel_sheet is called.
UpdateStep == last'.op = "update" /\ (calls' # calls \/ pc' # pc)

\* C15: an update call starts Excel only when a handle is missing and the
\* DataFrame is not empty; with the connection open it starts none, keeps the
\* three handles and drops no application; and an open connection stays open
\* through every call that is not close_excel_connection (nor a connection
\* made by the client itself), so every later update finds and reuses it.
C15_ConnectionReused ==
    [][/\ UpdateStep
            => /\ Among(steps', "dispatch") => (~Connected /\ df # <<>>)
               /\ Connected => /\ ~Among(steps', "dispatch")
                                /\ UNCHANGED <<app, wb, sheet, leaked>>
       /\ (Connected /\ last'.op \notin {"close", "initialize"})
            => Connected']_vars

\* The first update call made the connection (only a fetch came before it),
\* the second wrote through it.
C15_Witness ==
    /\ pc = "updated again"
    /\ calls = 1
    /\ steps = <<"csv", "clear", "header", "rows", "save">>
    /\ Connected
    /\ leaked = 0

ConnectionSteps == {"dispatch", "open", "add", "saveas"}

IsWriteStep(x) == x \notin ConnectionSteps

\* C17: an update call with a non-empty DataFrame in which nothing failed
\* has, after the steps of a connection it had to make, written the CSV file,
\* cleared the sheet, written the header, written the rows and saved the
\* workbook, in this order and each once; a call in which Clear or a cell
\* assignment failed has not saved the workbook.
C17_WriteOrder ==
    (last.op = "update" /\ df # <<>>)
        => /\ last.fault.at = "none"
                => /\ SelectSeq(steps, IsWriteStep)
                        = <<"csv", "clear", "header", "rows", "save">>
                   /\ \A i \in 1..Len(steps) : \A j \in 1..Len(steps) :
                        (steps[i] \in ConnectionSteps /\ IsWriteStep(steps[j]))
                            => i < j
           /\ last.fault.at \in {"clear", "cell"} => ~InSteps("save")

C17_Witness ==
    /\ last.op = "update"
    /\ last.fault.at = "none"
    /\ Len(df) = MaxCoins
    /\ steps = <<"dispatch", "open", "csv", "clear", "header", "rows", "save">>
    /\ disk = SheetOf(df)

\* C18: between calls the three handles are all unset or all set.
C18_NoHalfOpenSession == NoHandle \/ Connected

\* C19: a close_excel_connection call returns normally and leaves no handle
\* set, also when Save, Close or Quit raised in it; and an update call with a
\* non-empty DataFrame made right after it starts with Dispatch (it does
\* nothing only when Dispatch itself failed) and writes the CSV file and
\* the sheet only after it has made a new connection.
C19_CloseThenReconnect ==
    [][/\ CloseStep => (last'.exc = "none" /\ NoHandle')
       /\ (pc = "closed" /\ pc' = "reopened")
            => /\ steps' # <<>> => steps'[1] = "dispatch"
               /\ Among(steps', "csv") => Connected'
               /\ steps' = <<>> => last'.fault.at = "dispatch"]_vars

\* Save, Close or Quit raised in the close call (an application was left
\* running), and the update call after it connected again and wrote.
C19_Witness ==
    /\ pc = "reopened"
    /\ calls = 2
    /\ leaked = 1
    /\ steps = <<"dispatch", "open", "csv", "clear", "header", "rows", "save">>
    /\ Connected

=============================================================================
